---- MODULE Spec2Model ----
(***************************************************************************)
(* Model of package filters (src/filters/filters.go): the canonical list   *)
(* of filter names, the Filter <-> name conversions, and the process-wide  *)
(* registry Filters with its Register and Get methods.                     *)
(***************************************************************************)
EXTENDS Integers, Sequences, FiniteSets, TLC

VARIABLES
    FilterPluginNames,  \* var FilterPluginNames []string
    Filters,            \* var Filters FiltersList (its field filters, a Go map)
    call,               \* the most recent call on the package and its outcome
    registered,         \* history: identifiers passed to Register so far
    looked              \* history: some Get call has completed

vars == <<FilterPluginNames, Filters, call, registered, looked>>

----------------------------------------------------------------------------
(* Bounds of the model *)

\* identifiers range from Below under zero to one past the declared names
Below == 1
\* distinct non-nil plugin values
NumPlugins == 2
\* longest name list drawn by InitNames
MaxNames == 2

\* the nil value of interface type FilterPlugin (zero value of a map read)
NilPlugin == 0
Plugins == 1 .. NumPlugins
PluginInputs == Plugins \cup {NilPlugin}

\* names handed to FilterFromName: the canonical ones, case and length
\* variants of them, the empty name, the sentinel, an unknown name
NameInputs ==
    {"nop", "sample", "Nop", "NOP", "Sample", "sampl", "samples", "",
     "impossible", "bogus"}

\* names that lists drawn by InitNames are built from
NameAlphabet == {"nop", "sample", "impossible"}

SeqsUpTo(S, n) == UNION {[1 .. k -> S] : k \in 0 .. n}

----------------------------------------------------------------------------
(* Values *)

\* the nil error
NilError == [nil |-> TRUE, msg |-> ""]

\* fmt.Errorf("No filter named %s", name)
Errorf(name) == [nil |-> FALSE, msg |-> "No filter named " \o name]

\* the canonical list as declared
CanonicalNames == <<"nop", "sample">>

\* the values of type Filter handed to the package
FilterIds == (0 - Below) .. Len(CanonicalNames)

\* len(FilterPluginNames)
len == Len(FilterPluginNames)

\* the identifiers i with 0 <= i < len(FilterPluginNames)
ValidIds == 0 .. (len - 1)

\* FilterPluginNames[i] of a Go slice: panics when i is out of range
Index(i) ==
    IF i < 0 \/ i >= len
    THEN [ret |-> "", panic |-> TRUE]
    ELSE [ret |-> FilterPluginNames[i + 1], panic |-> FALSE]

\* m[k] = v on a Go map
MapAssign(m, k, v) ==
    [x \in (DOMAIN m) \cup {k} |-> IF x = k THEN v ELSE m[x]]

EmptyMap == [x \in {} |-> NilPlugin]

----------------------------------------------------------------------------
(* The functions of the package *)

\* faulty variant: the lower bound of the range check is missing
String_noLowerCheck(filter) ==
    IF filter >= len
    THEN [ret |-> "impossible", panic |-> FALSE]
    ELSE Index(filter)

String(filter) ==
    IF filter < 0 \/ filter >= len
    THEN [ret |-> "impossible", panic |-> FALSE]
    ELSE Index(filter)

\* the loop of FilterFromName from 0-based position i on
RECURSIVE Scan(_, _)
Scan(name, i) ==
    IF i >= len
    THEN [ret |-> -1, err |-> Errorf(name)]
    ELSE IF name = FilterPluginNames[i + 1]
         THEN [ret |-> i, err |-> NilError]
         ELSE Scan(name, i + 1)

\* faulty variant: the scan returns the last matching position
RECURSIVE ScanBack(_, _)
ScanBack(name, i) ==
    IF i < 0
    THEN [ret |-> -1, err |-> Errorf(name)]
    ELSE IF name = FilterPluginNames[i + 1]
         THEN [ret |-> i, err |-> NilError]
         ELSE ScanBack(name, i - 1)

FilterFromName_lastMatch(name) == ScanBack(name, len - 1)

\* faulty variant: the position is returned 1-based
FilterFromName_oneBased(name) ==
    LET r == Scan(name, 0)
    IN  IF r.err.nil THEN [r EXCEPT !.ret = @ + 1] ELSE r

\* strings.ToLower on the names of NameInputs
ToLower(s) ==
    CASE s = "Nop" -> "nop"
      [] s = "NOP" -> "nop"
      [] s = "Sample" -> "sample"
      [] OTHER -> s

\* faulty variant: names are compared ignoring case
RECURSIVE ScanFold(_, _)
ScanFold(name, i) ==
    IF i >= len
    THEN [ret |-> -1, err |-> Errorf(name)]
    ELSE IF ToLower(name) = ToLower(FilterPluginNames[i + 1])
         THEN [ret |-> i, err |-> NilError]
         ELSE ScanFold(name, i + 1)

FilterFromName_foldCase(name) == ScanFold(name, 0)

FilterFromName(name) == Scan(name, 0)

\* faulty variant: init leaves the map nil
init_noMake == [allocated |-> FALSE, filters |-> EmptyMap]

\* init: Filters = FiltersList{}; Filters.filters = make(map[Filter]FilterPlugin)
init == [allocated |-> TRUE, filters |-> EmptyMap]

\* faulty variant: the write is lost
Register_lostWrite(filter, plugin) ==
    [Filters |-> Filters, panic |-> ~Filters.allocated]

\* faulty variant: an existing entry is kept
Register_firstWins(filter, plugin) ==
    IF ~Filters.allocated
    THEN [Filters |-> Filters, panic |-> TRUE]
    ELSE IF filter \in DOMAIN Filters.filters
         THEN [Filters |-> Filters, panic |-> FALSE]
         ELSE [Filters |-> [Filters EXCEPT !.filters = MapAssign(@, filter, plugin)],
               panic |-> FALSE]

\* faulty variant: the map is rebuilt with the new entry alone
Register_rebuild(filter, plugin) ==
    IF ~Filters.allocated
    THEN [Filters |-> Filters, panic |-> TRUE]
    ELSE [Filters |-> [Filters EXCEPT !.filters = MapAssign(EmptyMap, filter, plugin)],
          panic |-> FALSE]

\* filters.filters[filter] = plugin; assignment to an entry of a nil map panics
Register(filter, plugin) ==
    IF ~Filters.allocated
    THEN [Filters |-> Filters, panic |-> TRUE]
    ELSE [Filters |-> [Filters EXCEPT !.filters = MapAssign(@, filter, plugin)],
          panic |-> FALSE]

\* faulty variant: a missing entry falls back to the entry of NopFilter
Get_fallback(filter) ==
    IF filter \in DOMAIN Filters.filters
    THEN Filters.filters[filter]
    ELSE IF 0 \in DOMAIN Filters.filters
         THEN Filters.filters[0]
         ELSE NilPlugin

\* return filters.filters[filter]; a missing key (or a nil map) reads as nil
Get(filter) ==
    IF filter \in DOMAIN Filters.filters
    THEN Filters.filters[filter]
    ELSE NilPlugin

----------------------------------------------------------------------------
(* Calls *)

NoCall ==
    [op |-> "init", filter |-> 0, plugin |-> NilPlugin, name |-> "",
     retFilter |-> 0, retName |-> "", retPlugin |-> NilPlugin,
     err |-> NilError, panic |-> FALSE]

\* an unrecovered panic ends the process
Running == ~call.panic

RegisterCall(filter, plugin) ==
    /\ Running
    /\ LET r == Register(filter, plugin)
       IN  /\ Filters' = r.Filters
           /\ call' = [NoCall EXCEPT !.op = "Register", !.filter = filter,
                                     !.plugin = plugin, !.panic = r.panic]
    /\ registered' = registered \cup {filter}
    /\ UNCHANGED <<FilterPluginNames, looked>>

\* faulty variant: the lookup stores the zero value under a missing key
GetCall_inserts(filter) ==
    /\ Running
    /\ Filters' = [Filters EXCEPT !.filters = MapAssign(@, filter, Get(filter))]
    /\ call' = [NoCall EXCEPT !.op = "Get", !.filter = filter,
                              !.retPlugin = Get(filter)]
    /\ looked' = TRUE
    /\ UNCHANGED <<FilterPluginNames, registered>>

GetCall(filter) ==
    /\ Running
    /\ call' = [NoCall EXCEPT !.op = "Get", !.filter = filter,
                              !.retPlugin = Get(filter)]
    /\ looked' = TRUE
    /\ UNCHANGED <<FilterPluginNames, Filters, registered>>

StringCall(filter) ==
    /\ Running
    /\ LET r == String(filter)
       IN  call' = [NoCall EXCEPT !.op = "String", !.filter = filter,
                                  !.retName = r.ret, !.panic = r.panic]
    /\ UNCHANGED <<FilterPluginNames, Filters, registered, looked>>

FilterFromNameCall(name) ==
    /\ Running
    /\ LET r == FilterFromName(name)
       IN  call' = [NoCall EXCEPT !.op = "FilterFromName", !.name = name,
                                  !.retFilter = r.ret, !.err = r.err]
    /\ UNCHANGED <<FilterPluginNames, Filters, registered, looked>>

----------------------------------------------------------------------------
(* Specifications *)

\* the package after its initialisation
Init ==
    /\ FilterPluginNames = CanonicalNames
    /\ Filters = init
    /\ call = NoCall
    /\ registered = {}
    /\ looked = FALSE

Next ==
    \/ \E filter \in FilterIds, plugin \in PluginInputs : RegisterCall(filter, plugin)
    \/ \E filter \in FilterIds : GetCall(filter)
    \/ \E filter \in FilterIds : StringCall(filter)
    \/ \E name \in NameInputs : FilterFromNameCall(name)

Spec == Init /\ [][Next]_vars

\* the conversions over an arbitrary name list, duplicates included
InitNames ==
    /\ FilterPluginNames \in SeqsUpTo(NameAlphabet, MaxNames)
    /\ Filters = init
    /\ call = NoCall
    /\ registered = {}
    /\ looked = FALSE

NextNames ==
    \/ \E filter \in FilterIds : StringCall(filter)
    \/ \E name \in NameInputs : FilterFromNameCall(name)

SpecNames == InitNames /\ [][NextNames]_vars

----------------------------------------------------------------------------
(* Properties *)

\* the names of the list, as a set
ListedNames == {FilterPluginNames[k] : k \in 1 .. len}

\* the 0-based positions at which name occurs in the list
Positions(name) == {i \in ValidIds : FilterPluginNames[i + 1] = name}

\* C1: for every valid identifier i, FilterFromName(i.String()) returns
\* exactly i together with a nil error.
C1_RoundTrip ==
    \A i \in ValidIds :
        /\ ~String(i).panic
        /\ FilterFromName(String(i).ret) = [ret |-> i, err |-> NilError]

\* a name rendered from the valid identifier 1 has been resolved back to 1
C1_Witness ==
    /\ call.op = "FilterFromName"
    /\ 1 \in ValidIds
    /\ call.name = String(1).ret
    /\ call.retFilter = 1
    /\ call.err = NilError

\* C2: for every name that is not exactly equal to an entry of the name
\* list, FilterFromName fails: the error is not nil, its message is
\* "No filter named " followed by the name, and the identifier returned is
\* not a valid identifier.
C2_UnknownNameFails ==
    (call.op = "FilterFromName" /\ call.name \notin ListedNames) =>
        /\ ~call.err.nil
        /\ call.err.msg = "No filter named " \o call.name
        /\ call.retFilter \notin ValidIds

\* a name differing from a canonical one only in case has been refused
C2_Witness ==
    /\ call.op = "FilterFromName"
    /\ call.name = "Nop"
    /\ "nop" \in ListedNames
    /\ call.err = [nil |-> FALSE, msg |-> "No filter named Nop"]
    /\ call.retFilter = -1

\* C3: for every identifier outside [0, len), negative ones included,
\* String returns "impossible" without panicking, and "impossible" is no
\* canonical name; for every identifier inside the range it returns the
\* canonical name at that index.
C3_StringSentinel ==
    /\ "impossible" \notin ListedNames
    /\ call.op = "String" =>
        /\ ~call.panic
        /\ call.filter \notin ValidIds => call.retName = "impossible"
        /\ call.filter \in ValidIds =>
               call.retName = FilterPluginNames[call.filter + 1]

\* String has rendered a negative identifier
C3_Witness ==
    /\ call.op = "String"
    /\ call.filter < 0
    /\ call.retName = "impossible"
    /\ ~call.panic

\* C4: last write wins: a Register(id, p) step raises nothing and makes
\* Get(id) return p while Get of every other identifier is as before, and
\* no other step changes what Get returns; so Get(id) is always the plugin
\* of the most recent Register(id, .).
C4_LastWriteWins ==
    [][/\ call'.op = "Register" =>
            /\ ~call'.panic
            /\ \A g \in FilterIds :
                   Get(g)' = IF g = call'.filter THEN call'.plugin ELSE Get(g)
       /\ call'.op # "Register" => \A g \in FilterIds : Get(g)' = Get(g)]_vars

\* a second registration for an identifier has replaced a different plugin
\* while another identifier keeps its own
C4_Witness ==
    /\ call.op = "Register"
    /\ call.filter = 1
    /\ call.plugin = 2
    /\ Get(1) = 2
    /\ Get(0) = 1
    /\ ~call.panic

\* C5: the registry starts empty, and Get(id) for an identifier never
\* passed to Register, valid or out of range, returns nil with no error
\* and no panic.
C5_UnregisteredIsNil ==
    /\ call.op = "init" => DOMAIN Filters.filters = {}
    /\ \A id \in FilterIds \ registered : Get(id) = NilPlugin
    /\ (call.op = "Get" /\ call.filter \notin registered) =>
           call.retPlugin = NilPlugin /\ call.err = NilError /\ ~call.panic

\* Get of an out-of-range identifier never registered has returned nil
\* while other identifiers hold plugins
C5_Witness ==
    /\ call.op = "Get"
    /\ call.filter >= len
    /\ call.filter \notin registered
    /\ 0 \in registered
    /\ Get(0) # NilPlugin
    /\ call.retPlugin = NilPlugin

\* C6: FilterFromName is the only operation that can fail: Register, Get
\* and String complete with no error and no panic for every argument,
\* out-of-range identifiers included.
C6_OnlyFilterFromNameFails ==
    /\ ~call.panic
    /\ ~call.err.nil => call.op = "FilterFromName"

\* Register has completed for an out-of-range identifier
C6_Witness ==
    /\ call.op = "Register"
    /\ call.filter < 0
    /\ call.plugin # NilPlugin
    /\ ~call.panic
    /\ Get(call.filter) = call.plugin

\* C7: for any name list, duplicates included, and any name that occurs in
\* it, FilterFromName returns the smallest index at which the name occurs.
C7_FirstMatch ==
    (call.op = "FilterFromName" /\ Positions(call.name) # {}) =>
        /\ call.err = NilError
        /\ call.retFilter \in Positions(call.name)
        /\ \A j \in Positions(call.name) : call.retFilter <= j

\* a name declared twice has been resolved to its earlier position
C7_Witness ==
    /\ call.op = "FilterFromName"
    /\ Cardinality(Positions(call.name)) >= 2
    /\ call.retFilter = 0

\* C8: only Register changes state: a step of Get, String or
\* FilterFromName, failing or not, leaves the registry mapping and the
\* name list unchanged.
C8_OnlyRegisterWrites ==
    [][call'.op # "Register" =>
           Filters' = Filters /\ FilterPluginNames' = FilterPluginNames]_vars

\* a failed FilterFromName and a populated registry
C8_Witness ==
    /\ call.op = "FilterFromName"
    /\ ~call.err.nil
    /\ DOMAIN Filters.filters = FilterIds

\* C9 as stated: the set of identifiers with an entry never shrinks, and
\* once Get(id) is a plugin it never again is nil.
C9_NeverAbsentAgain ==
    [][/\ DOMAIN Filters.filters \subseteq DOMAIN Filters'.filters
       /\ \A id \in FilterIds :
              Get(id) # NilPlugin => Get(id)' # NilPlugin]_vars

\* C9 amended: the set of identifiers with an entry never shrinks, and
\* Get(id) goes from a plugin to nil only by a Register(id, nil).
C9_EntriesNeverShrink ==
    [][/\ DOMAIN Filters.filters \subseteq DOMAIN Filters'.filters
       /\ \A id \in FilterIds :
              (Get(id) # NilPlugin /\ Get(id)' = NilPlugin) =>
                  /\ call'.op = "Register"
                  /\ call'.filter = id
                  /\ call'.plugin = NilPlugin]_vars

\* a nil plugin has been registered over an identifier, whose entry stays
C9_Witness ==
    /\ call.op = "Register"
    /\ call.plugin = NilPlugin
    /\ call.filter \in DOMAIN Filters.filters
    /\ Get(call.filter) = NilPlugin
    /\ Cardinality(DOMAIN Filters.filters) >= 2

\* C10 as stated: once a Get has happened no Register happens and the
\* registry mapping is never modified again.
C10_RegisterBeforeGet ==
    [][looked => (call'.op # "Register" /\ Filters' = Filters)]_vars

\* C10 amended: a Register after the first Get is accepted and takes
\* effect at once; after the first Get the mapping is modified by Register
\* steps only.
C10_RegisterAfterGetTakesEffect ==
    [][looked =>
           /\ call'.op = "Register" =>
                  /\ ~call'.panic
                  /\ \A g \in FilterIds :
                         g = call'.filter => Get(g)' = call'.plugin
           /\ Filters' # Filters => call'.op = "Register"]_vars

\* a Register after a Get has replaced the plugin of an identifier
C10_Witness ==
    /\ looked
    /\ call.op = "Register"
    /\ call.plugin # NilPlugin
    /\ Get(call.filter) = call.plugin

====
